---------------------------- MODULE Spec2Model ----------------------------
(***************************************************************************)
(* Model of the court-address reconciliation scripts:                      *)
(*   scripts/validate_court_addresses.py      (the reporting pass)         *)
(*   scripts/apply_verified_address_updates.py (the apply pass)            *)
(*                                                                         *)
(* Python strings are modelled as sequences of one-character strings, so   *)
(* that trimming, splitting, lower-casing and substring tests are computed *)
(* character by character as the code computes them.                       *)
(***************************************************************************)
EXTENDS Integers, Sequences, FiniteSets, TLC

VARIABLES
    \* normalize_text applied repeatedly to one input
    nt_input, nt_val, nt_first, nt_calls,
    \* one call of parse_verified_address
    pv_address1, pv_existing_unit, pv_parsed, pv_pc,
    \* one call of recommend_action
    ra_match, ra_score, ra_addr_match, ra_city_match, ra_out, ra_pc,
    \* write_report for one local court: its inputs, the loop of
    \* find_best_match, what it returns, the recommendation and the row
    rp_pc, rp_local, rp_locations, rp_candidates, rp_i,
    rp_best, rp_best_score, rp_best_addr_match, rp_best_city_match, rp_cur,
    rp_result, rp_heuristic, rp_manual, rp_row,
    \* main of the apply script: the verification table, the source files on
    \* disk (and as they were when the run began), files_cache with the order
    \* its files were loaded in, the position in the table and in the final
    \* write loop, and the exception that ended the run
    ap_pc, ap_manual, ap_disk, ap_disk0, ap_cache, ap_order, ap_i, ap_w, ap_error,
    \* one verification record applied to one entry by successive runs of the
    \* apply script: the record and the city of its key, the entry as it was
    \* and after each run, and how the last run ended
    mg_pc, mg_info, mg_city, mg_hist

normVars == <<nt_input, nt_val, nt_first, nt_calls>>
parseVars == <<pv_address1, pv_existing_unit, pv_parsed, pv_pc>>
recVars == <<ra_match, ra_score, ra_addr_match, ra_city_match, ra_out, ra_pc>>
reportInputs == <<rp_local, rp_locations>>
scanVars == <<rp_candidates, rp_i, rp_best, rp_best_score, rp_best_addr_match,
              rp_best_city_match, rp_cur>>
reportVars == <<rp_pc, reportInputs, scanVars, rp_result, rp_heuristic,
                rp_manual, rp_row>>

applyVars == <<ap_pc, ap_manual, ap_disk, ap_disk0, ap_cache, ap_order, ap_i,
               ap_w, ap_error>>

mergeVars == <<mg_pc, mg_info, mg_city, mg_hist>>

vars == <<normVars, parseVars, recVars, reportVars, applyVars, mergeVars>>

(***************************************************************************)
(* Each specification below exercises one part of the scripts; the         *)
(* variables of the other parts rest at these values.                      *)
(***************************************************************************)
ParsedAddress(building, address_line1, unit) ==
    [building |-> building, address_line1 |-> address_line1, unit |-> unit]

NotParsed == ParsedAddress(<<>>, <<>>, <<>>)

IdleNorm ==
    /\ nt_input = <<>>
    /\ nt_val = <<>>
    /\ nt_first = <<>>
    /\ nt_calls = 0

IdleParse ==
    /\ pv_address1 = <<>>
    /\ pv_existing_unit = <<>>
    /\ pv_parsed = NotParsed
    /\ pv_pc = "idle"

NoRecommendation == [action |-> "", preferred |-> "", note |-> ""]

IdleRecommend ==
    /\ ra_match = <<>>
    /\ ra_score = [num |-> 0, den |-> 1]
    /\ ra_addr_match = FALSE
    /\ ra_city_match = FALSE
    /\ ra_out = NoRecommendation
    /\ ra_pc = "idle"

NoLocal ==
    [source_file |-> <<>>, name |-> <<>>, city |-> <<>>, address1 |-> <<>>,
     orig_address |-> <<>>]

NoCandidateScore ==
    [base |-> [num |-> 0, den |-> 1], score |-> [num |-> 0, den |-> 1],
     city_match |-> FALSE, addr_match |-> FALSE,
     addr_bonus |-> [num |-> 0, den |-> 1]]

NoResult ==
    [match |-> <<>>, score |-> [num |-> 0, den |-> 1],
     addr_match |-> FALSE, city_match |-> FALSE]

NoRow ==
    [court_name |-> <<>>, massgov_name |-> <<>>, massgov_match_score |-> <<>>,
     address_match |-> FALSE, city_match |-> FALSE,
     recommended_action |-> "", preferred_source |-> "", notes |-> "",
     verification_notes |-> "", final_action |-> ""]

\* the loop variables of find_best_match before its first iteration
ScanStart ==
    /\ rp_i = 1
    /\ rp_best = <<>>
    /\ rp_best_score = [num |-> 0, den |-> 1]
    /\ rp_best_addr_match = FALSE
    /\ rp_best_city_match = FALSE
    /\ rp_cur = NoCandidateScore

ReportRest ==
    /\ rp_candidates = <<>>
    /\ ScanStart
    /\ rp_result = NoResult
    /\ rp_heuristic = NoRecommendation
    /\ rp_manual = <<>>
    /\ rp_row = NoRow

IdleReport ==
    /\ rp_pc = "idle"
    /\ rp_local = NoLocal
    /\ rp_locations = <<>>
    /\ ReportRest

IdleApply ==
    /\ ap_pc = "idle"
    /\ ap_manual = <<>>
    /\ ap_disk = <<>>
    /\ ap_disk0 = <<>>
    /\ ap_cache = <<>>
    /\ ap_order = <<>>
    /\ ap_i = 1
    /\ ap_w = 1
    /\ ap_error = <<>>

IdleMerge ==
    /\ mg_pc = "idle"
    /\ mg_info = <<>>
    /\ mg_city = <<>>
    /\ mg_hist = <<>>

(***************************************************************************)
(* Bounds of the model                                                     *)
(***************************************************************************)
\* longest input string enumerated for normalize_text
MaxTextLen == 4
\* most comma-separated segments in an enumerated verified address string
MaxSegments == 4
\* most mass.gov locations in the list given to write_report
MaxLocations == 2
\* largest score, in twentieths, given to recommend_action on its own
MaxScoreTwentieths == 26
\* most records in the verification table given to the apply pass
MaxRecords == 2
\* most runs of the apply script over the same verification record
MaxRuns == 2

(***************************************************************************)
(* Characters and the str methods the scripts use                          *)
(***************************************************************************)
UpperChars == <<"A","B","C","D","E","F","G","H","I","J","K","L","M",
                "N","O","P","Q","R","S","T","U","V","W","X","Y","Z">>

LowerChars == <<"a","b","c","d","e","f","g","h","i","j","k","l","m",
                "n","o","p","q","r","s","t","u","v","w","x","y","z">>

\* the whitespace str.strip(), str.split() and the regex \s agree on
IsSpace(c) == c \in {" ", "\t", "\n", "\r", "\f"}

LowerChar(c) ==
    IF \E i \in 1..Len(UpperChars) : UpperChars[i] = c
    THEN LowerChars[CHOOSE i \in 1..Len(UpperChars) : UpperChars[i] = c]
    ELSE c

\* str.lower()
Lower(s) == [i \in 1..Len(s) |-> LowerChar(s[i])]

\* str.strip()
Strip(s) ==
    IF \A i \in 1..Len(s) : IsSpace(s[i])
    THEN <<>>
    ELSE LET f == CHOOSE i \in 1..Len(s) :
                      /\ ~IsSpace(s[i])
                      /\ \A j \in 1..(i-1) : IsSpace(s[j])
             l == CHOOSE i \in 1..Len(s) :
                      /\ ~IsSpace(s[i])
                      /\ \A j \in (i+1)..Len(s) : IsSpace(s[j])
         IN  SubSeq(s, f, l)

\* re.sub(r"[\.,]", " ", value)
ReplaceDotComma(s) ==
    [i \in 1..Len(s) |-> IF s[i] \in {".", ","} THEN " " ELSE s[i]]

\* re.sub(r"\s+", " ", value): every maximal whitespace run becomes one space
CollapseSpaces(s) ==
    LET keep(i) == \/ ~IsSpace(s[i])
                   \/ i = 1
                   \/ ~IsSpace(s[i-1])
        RECURSIVE build(_)
        build(i) == IF i > Len(s) THEN <<>>
                    ELSE IF ~keep(i) THEN build(i+1)
                    ELSE IF IsSpace(s[i]) THEN <<" ">> \o build(i+1)
                    ELSE <<s[i]>> \o build(i+1)
    IN  build(1)

\* str.split() with no argument: the maximal runs of non-whitespace
Tokens(s) ==
    LET RECURSIVE scan(_, _)
        scan(i, cur) ==
            IF i > Len(s)
            THEN IF cur = <<>> THEN <<>> ELSE <<cur>>
            ELSE IF IsSpace(s[i])
                 THEN IF cur = <<>> THEN scan(i+1, <<>>)
                      ELSE <<cur>> \o scan(i+1, <<>>)
                 ELSE scan(i+1, Append(cur, s[i]))
    IN  scan(1, <<>>)

\* str.split(sep) for a one-character separator: every piece, empty ones too
SplitChar(s, sep) ==
    LET RECURSIVE scan(_, _)
        scan(i, cur) ==
            IF i > Len(s) THEN <<cur>>
            ELSE IF s[i] = sep THEN <<cur>> \o scan(i+1, <<>>)
            ELSE scan(i+1, Append(cur, s[i]))
    IN  scan(1, <<>>)

\* sep.join(parts)
Join(parts, sep) ==
    LET RECURSIVE go(_)
        go(i) == IF i > Len(parts) THEN <<>>
                 ELSE IF i = 1 THEN parts[1] \o go(2)
                 ELSE sep \o parts[i] \o go(i+1)
    IN  go(1)

\* needle in hay
Contains(hay, needle) ==
    \E i \in 0..(Len(hay) - Len(needle)) :
        SubSeq(hay, i+1, i+Len(needle)) = needle

\* the non-empty strings of a sequence of strings, in order
RECURSIVE DropEmpty(_)
DropEmpty(parts) ==
    IF parts = <<>> THEN <<>>
    ELSE IF Head(parts) = <<>> THEN DropEmpty(Tail(parts))
    ELSE <<Head(parts)>> \o DropEmpty(Tail(parts))

\* all strings over an alphabet up to a length
RECURSIVE StringsUpTo(_, _)
StringsUpTo(alphabet, n) ==
    IF n = 0 THEN {<<>>}
    ELSE LET shorter == StringsUpTo(alphabet, n-1)
         IN  shorter \cup {Append(s, c) : s \in shorter, c \in alphabet}

(***************************************************************************)
(* Text Normalizer                                                         *)
(***************************************************************************)
normalize_text(value) ==
    CollapseSpaces(ReplaceDotComma(Lower(Strip(value))))

(***************************************************************************)
(* Address Merge/Parser: parse_verified_address                            *)
(***************************************************************************)
sCourthouse == <<"c","o","u","r","t","h","o","u","s","e">>
sCommaSpace == <<",", " ">>

\* [part.strip() for part in address1.split(",") if part.strip()]
verified_parts(address1) ==
    LET raw == SplitChar(address1, ",")
        stripped == [i \in 1..Len(raw) |-> Strip(raw[i])]
    IN  DropEmpty(stripped)

\* a variant whose zero- and one-part paths return an empty unit
parse_verified_address_drop_unit(address1, existing_unit) ==
    LET parts == verified_parts(address1)
    IN  IF Len(parts) = 0 THEN ParsedAddress(<<>>, <<>>, <<>>)
        ELSE IF Len(parts) = 1 THEN ParsedAddress(<<>>, parts[1], <<>>)
        ELSE IF Contains(Lower(parts[1]), sCourthouse)
        THEN ParsedAddress(parts[1], parts[2],
                           IF Len(parts) >= 3 THEN parts[3] ELSE existing_unit)
        ELSE ParsedAddress(<<>>, parts[1], Join(Tail(parts), sCommaSpace))

\* a variant that never rejoins the parts after the second into the unit
parse_verified_address_second_only(address1, existing_unit) ==
    LET parts == verified_parts(address1)
    IN  IF Len(parts) = 0 THEN ParsedAddress(<<>>, <<>>, existing_unit)
        ELSE IF Len(parts) = 1 THEN ParsedAddress(<<>>, parts[1], existing_unit)
        ELSE IF Contains(Lower(parts[1]), sCourthouse)
        THEN ParsedAddress(parts[1], parts[2],
                           IF Len(parts) >= 3 THEN parts[3] ELSE existing_unit)
        ELSE ParsedAddress(<<>>, parts[1], parts[2])

\* a variant whose unit parts are added to the existing unit, not put in its
\* place
parse_verified_address_unit_appended(address1, existing_unit) ==
    LET parts == verified_parts(address1)
        added(unit) == IF existing_unit = <<>> THEN unit
                       ELSE existing_unit \o sCommaSpace \o unit
    IN  IF Len(parts) = 0 THEN ParsedAddress(<<>>, <<>>, existing_unit)
        ELSE IF Len(parts) = 1 THEN ParsedAddress(<<>>, parts[1], existing_unit)
        ELSE IF Contains(Lower(parts[1]), sCourthouse)
        THEN ParsedAddress(parts[1], parts[2],
                           IF Len(parts) >= 3 THEN added(parts[3])
                           ELSE existing_unit)
        ELSE ParsedAddress(<<>>, parts[1], added(Join(Tail(parts), sCommaSpace)))

parse_verified_address(address1, existing_unit) ==
    LET parts == verified_parts(address1)
        \* parsed = ParsedAddress(unit=existing_unit)
        parsed == ParsedAddress(<<>>, <<>>, existing_unit)
    IN  IF Len(parts) = 0 THEN parsed
        ELSE IF Len(parts) = 1
        THEN [parsed EXCEPT !.address_line1 = parts[1]]
        ELSE IF Contains(Lower(parts[1]), sCourthouse) /\ Len(parts) >= 2
        THEN LET p1 == [parsed EXCEPT !.building = parts[1],
                                      !.address_line1 = parts[2]]
             IN  IF Len(parts) >= 3 THEN [p1 EXCEPT !.unit = parts[3]] ELSE p1
        ELSE LET p1 == [parsed EXCEPT !.address_line1 = parts[1]]
                 p2 == IF Len(parts) >= 2 THEN [p1 EXCEPT !.unit = parts[2]] ELSE p1
             IN  IF Len(parts) > 2
                 THEN [p2 EXCEPT !.unit = Join(Tail(parts), sCommaSpace)]
                 ELSE p2

(***************************************************************************)
(* Name and Address Normalizers                                            *)
(***************************************************************************)
NAME_STOPWORDS ==
    { <<"t","h","e">>,
      <<"d","e","p","a","r","t","m","e","n","t">>,
      <<"d","i","v","i","s","i","o","n">>,
      <<"d","e","p","t">>,
      <<"c","o","u","r","t">>,
      <<"c","o","u","r","t","h","o","u","s","e">>,
      <<"m","u","n","i","c","i","p","a","l">>,
      <<"p","r","o","b","a","t","e">>,
      <<"f","a","m","i","l","y">> }

\* the abbreviation table as <<long form, short form>> pairs
ADDRESS_ABBREVIATIONS ==
    { <<<<"s","t","r","e","e","t">>, <<"s","t">>>>,
      <<<<"r","o","a","d">>, <<"r","d">>>>,
      <<<<"a","v","e","n","u","e">>, <<"a","v","e">>>>,
      <<<<"b","o","u","l","e","v","a","r","d">>, <<"b","l","v","d">>>>,
      <<<<"d","r","i","v","e">>, <<"d","r">>>>,
      <<<<"c","o","u","r","t">>, <<"c","t">>>>,
      <<<<"p","l","a","c","e">>, <<"p","l">>>>,
      <<<<"s","q","u","a","r","e">>, <<"s","q">>>>,
      <<<<"l","a","n","e">>, <<"l","n">>>>,
      <<<<"h","i","g","h","w","a","y">>, <<"h","w","y">>>>,
      <<<<"r","o","u","t","e">>, <<"r","t">>>>,
      <<<<"p","a","r","k","w","a","y">>, <<"p","k","w","y">>>>,
      <<<<"c","i","r","c","l","e">>, <<"c","i","r">>>>,
      <<<<"c","e","n","t","e","r">>, <<"c","t","r">>>>,
      <<<<"m","o","u","n","t">>, <<"m","t">>>> }

sSpace == <<" ">>

\* [t for t in tokens if t not in NAME_STOPWORDS]
RECURSIVE DropStopwords(_)
DropStopwords(tokens) ==
    IF tokens = <<>> THEN <<>>
    ELSE IF Head(tokens) \in NAME_STOPWORDS THEN DropStopwords(Tail(tokens))
    ELSE <<Head(tokens)>> \o DropStopwords(Tail(tokens))

normalize_name(value) ==
    Join(DropStopwords(Tokens(normalize_text(value))), sSpace)

\* a variant that leaves every token as it is
Abbreviate_none(token) == token

\* ADDRESS_ABBREVIATIONS.get(token, token)
Abbreviate(token) ==
    IF \E p \in ADDRESS_ABBREVIATIONS : p[1] = token
    THEN (CHOOSE p \in ADDRESS_ABBREVIATIONS : p[1] = token)[2]
    ELSE token

normalize_address(value) ==
    LET tokens == Tokens(normalize_text(value))
    IN  Join([i \in 1..Len(tokens) |-> Abbreviate(tokens[i])], sSpace)

(***************************************************************************)
(* Scores.  The code adds Python floats; the model keeps every score as an *)
(* exact fraction [num, den] with den > 0 and compares by cross            *)
(* multiplication.                                                         *)
(***************************************************************************)
Rat(n, d) == [num |-> n, den |-> d]

RatAdd(x, y) == Rat(x.num * y.den + y.num * x.den, x.den * y.den)

RatLess(x, y) == x.num * y.den < y.num * x.den

RatEq(x, y) == x.num * y.den = y.num * x.den

RatZero == Rat(0, 1)

\* the bonuses and thresholds of find_best_match and recommend_action
CityBonus == Rat(1, 10)
ExactAddressBonus == Rat(2, 10)
OrigAddressBonus == Rat(15, 100)
ConfidenceFloor == Rat(6, 10)
HighConfidence == Rat(8, 10)

(***************************************************************************)
(* difflib.SequenceMatcher(None, a, b).ratio() for strings shorter than    *)
(* the 200 characters at which difflib starts discarding popular elements  *)
(***************************************************************************)
\* length of the common run starting at a[i], b[j] inside a[..ahi], b[..bhi]
RECURSIVE CommonRun(_, _, _, _, _, _)
CommonRun(a, b, i, j, ahi, bhi) ==
    IF i > ahi \/ j > bhi THEN 0
    ELSE IF a[i] # b[j] THEN 0
    ELSE 1 + CommonRun(a, b, i+1, j+1, ahi, bhi)

\* find_longest_match: the longest common block of a[alo..ahi] and
\* b[blo..bhi]; of the longest ones the one starting earliest in a, and of
\* those the one starting earliest in b.  <<i, j, size>>
LongestMatch(a, b, alo, ahi, blo, bhi) ==
    LET run == [i \in alo..ahi |-> [j \in blo..bhi |-> CommonRun(a, b, i, j, ahi, bhi)]]
        sizes == {run[i][j] : i \in alo..ahi, j \in blo..bhi}
        size == CHOOSE k \in sizes : \A m \in sizes : m <= k
        bi == CHOOSE i \in alo..ahi :
                  /\ \E j \in blo..bhi : run[i][j] = size
                  /\ \A i2 \in alo..(i-1) : \A j \in blo..bhi : run[i2][j] # size
        bj == CHOOSE j \in blo..bhi :
                  /\ run[bi][j] = size
                  /\ \A j2 \in blo..(j-1) : run[bi][j2] # size
    IN  <<bi, bj, size>>

\* get_matching_blocks: the total size of the blocks found by splitting
\* around the longest match and recursing to its left and to its right
RECURSIVE MatchingSize(_, _, _, _, _, _)
MatchingSize(a, b, alo, ahi, blo, bhi) ==
    IF alo > ahi \/ blo > bhi THEN 0
    ELSE LET m == LongestMatch(a, b, alo, ahi, blo, bhi)
         IN  IF m[3] = 0 THEN 0
             ELSE m[3]
                  + MatchingSize(a, b, alo, m[1]-1, blo, m[2]-1)
                  + MatchingSize(a, b, m[1]+m[3], ahi, m[2]+m[3], bhi)

\* ratio(): 2.0 * matches / (len(a) + len(b)), and 1.0 for two empty strings
name_similarity(a, b) ==
    IF Len(a) + Len(b) = 0 THEN Rat(1, 1)
    ELSE Rat(2 * MatchingSize(a, b, 1, Len(a), 1, Len(b)), Len(a) + Len(b))

(***************************************************************************)
(* Optional values: None is <<>>, a present value x is <<x>>               *)
(***************************************************************************)
None == <<>>

Some(x) == <<x>>

(***************************************************************************)
(* Candidate Filter                                                        *)
(***************************************************************************)
\* [loc for loc in locations if normalized_city and normalized_city in loc.cities]
RECURSIVE city_matches(_, _)
city_matches(normalized_city, locations) ==
    IF locations = <<>> THEN <<>>
    ELSE IF normalized_city # <<>> /\ normalized_city \in Head(locations).cities
    THEN <<Head(locations)>> \o city_matches(normalized_city, Tail(locations))
    ELSE city_matches(normalized_city, Tail(locations))

\* a variant without the fall-back to the full list
candidate_locations_no_fallback(local_city, locations) ==
    city_matches(normalize_text(local_city), locations)

candidate_locations(local_city, locations) ==
    LET matches == city_matches(normalize_text(local_city), locations)
    IN  IF matches # <<>> THEN matches ELSE locations

(***************************************************************************)
(* Match Scorer: the body of the loop of find_best_match                   *)
(***************************************************************************)
AddressResult(matched, bonus) == [addr_match |-> matched, bonus |-> bonus]

\* a variant that prefers an exact match anywhere in the list to an earlier
\* substring match
address_scan_exact_first(local_addr_norm, orig_address, addresses) ==
    IF \E i \in 1..Len(addresses) :
           LET addr_norm == normalize_address(addresses[i].address_line1)
           IN  addr_norm # <<>> /\ addr_norm = local_addr_norm
    THEN AddressResult(TRUE, ExactAddressBonus)
    ELSE IF \E i \in 1..Len(addresses) :
           LET addr_norm == normalize_address(addresses[i].address_line1)
           IN  /\ orig_address # <<>>
               /\ addr_norm # <<>>
               /\ Contains(normalize_address(orig_address), addr_norm)
    THEN AddressResult(TRUE, OrigAddressBonus)
    ELSE AddressResult(FALSE, RatZero)

\* for addr in loc.addresses: ... break
RECURSIVE address_scan(_, _, _)
address_scan(local_addr_norm, orig_address, addresses) ==
    IF addresses = <<>> THEN AddressResult(FALSE, RatZero)
    ELSE LET addr_norm == normalize_address(Head(addresses).address_line1)
         IN  IF addr_norm # <<>> /\ addr_norm = local_addr_norm
             THEN AddressResult(TRUE, ExactAddressBonus)
             ELSE IF /\ orig_address # <<>>
                     /\ addr_norm # <<>>
                     /\ Contains(normalize_address(orig_address), addr_norm)
             THEN AddressResult(TRUE, OrigAddressBonus)
             ELSE address_scan(local_addr_norm, orig_address, Tail(addresses))

\* if local_addr_norm: for addr in loc.addresses: ...
address_bonus(local, loc) ==
    LET local_addr_norm == normalize_address(local.address1)
    IN  IF local_addr_norm # <<>>
        THEN address_scan(local_addr_norm, local.orig_address, loc.addresses)
        ELSE AddressResult(FALSE, RatZero)

\* one iteration of the loop: the candidate's score and its two flags
score_candidate(local, loc) ==
    LET base == name_similarity(normalize_name(local.name), normalize_name(loc.title))
        local_city_norm == normalize_text(local.city)
        city_match == local_city_norm # <<>> /\ local_city_norm \in loc.cities
        with_city == IF city_match THEN RatAdd(base, CityBonus) ELSE base
        addr == address_bonus(local, loc)
    IN  [ base |-> base,
          score |-> IF addr.addr_match THEN RatAdd(with_city, addr.bonus)
                    ELSE with_city,
          city_match |-> city_match,
          addr_match |-> addr.addr_match,
          addr_bonus |-> addr.bonus ]

(***************************************************************************)
(* Match Selector: what find_best_match returns after its loop             *)
(***************************************************************************)
MatchResult(match, score, addr_match, city_match) ==
    [match |-> match, score |-> score,
     addr_match |-> addr_match, city_match |-> city_match]

NoMatch == MatchResult(None, RatZero, FALSE, FALSE)

\* a variant that reports a winner below the floor as it stands
select_result_no_floor(best, best_score, best_addr_match, best_city_match) ==
    MatchResult(best, best_score, best_addr_match, best_city_match)

select_result(best, best_score, best_addr_match, best_city_match) ==
    IF RatLess(best_score, ConfidenceFloor)
    THEN NoMatch
    ELSE MatchResult(best, best_score, best_addr_match, best_city_match)

(***************************************************************************)
(* Action Recommender                                                      *)
(***************************************************************************)
Recommendation(action, preferred, note) ==
    [action |-> action, preferred |-> preferred, note |-> note]

\* a variant that tests the score before the address flag
recommend_action_score_first(local, match, score, addr_match, city_match) ==
    IF match = None
    THEN Recommendation("review", "needs_manual", "No mass.gov location match")
    ELSE IF ~RatLess(score, HighConfidence) /\ city_match /\ match[1].addresses # <<>>
    THEN Recommendation("update_local_from_massgov", "massgov",
                        "High-confidence name/city match")
    ELSE IF addr_match
    THEN Recommendation("no_change", "local", "Address matches mass.gov")
    ELSE Recommendation("verify_web", "needs_manual",
                        "Name match without address confirmation")

recommend_action(local, match, score, addr_match, city_match) ==
    IF match = None
    THEN Recommendation("review", "needs_manual", "No mass.gov location match")
    ELSE IF addr_match
    THEN Recommendation("no_change", "local", "Address matches mass.gov")
    ELSE IF ~RatLess(score, HighConfidence) /\ city_match /\ match[1].addresses # <<>>
    THEN Recommendation("update_local_from_massgov", "massgov",
                        "High-confidence name/city match")
    ELSE Recommendation("verify_web", "needs_manual",
                        "Name match without address confirmation")

(***************************************************************************)
(* Reporting pass: the verification table and its override                 *)
(***************************************************************************)
sKeySep == <<":", ":">>

\* f"{local.source_file}::{local.name}::{local.city}"
manual_key(local) ==
    local.source_file \o sKeySep \o local.name \o sKeySep \o local.city

\* manual_verifications.get(manual_key, {}); a missing record reads as one
\* whose fields are all empty
NoManual ==
    [preferred_source |-> "", final_action |-> "", verification_notes |-> ""]

manual_get(table, key) ==
    IF key \in DOMAIN table THEN table[key] ELSE NoManual

\* a variant that takes all three fields from the record whatever they hold
manual_override_always(heuristic, manual) ==
    Recommendation(manual.final_action, manual.preferred_source,
                   manual.verification_notes)

\* if manual.get("preferred_source"): ... if manual.get("final_action"): ...
\* if verification_notes: ...
manual_override(heuristic, manual) ==
    Recommendation(
        IF manual.final_action # "" THEN manual.final_action ELSE heuristic.action,
        IF manual.preferred_source # "" THEN manual.preferred_source
        ELSE heuristic.preferred,
        IF manual.verification_notes # "" THEN manual.verification_notes
        ELSE heuristic.note)

(***************************************************************************)
(* Address Merge/Parser: build_orig_address                                *)
(***************************************************************************)
build_orig_address(building, address_line1, unit, address2, city, state, zip_code) ==
    LET parts == DropEmpty(<<building, address_line1, unit, address2>>)
        line == Join(parts, sCommaSpace)
        city_state0 == Join(DropEmpty(<<city, state>>), sCommaSpace)
        city_state == IF zip_code # <<>>
                      THEN IF city_state0 # <<>>
                           THEN city_state0 \o sSpace \o zip_code
                           ELSE zip_code
                      ELSE city_state0
    IN  IF city_state # <<>>
        THEN IF line # <<>> THEN line \o sCommaSpace \o city_state ELSE city_state
        ELSE line

(***************************************************************************)
(* Apply pass: the body of the loop of main                                *)
(***************************************************************************)
\* key.split("::", maxsplit): the pieces between the first maxsplit
\* occurrences of "::", found from the left
RECURSIVE SplitKey(_, _)
SplitKey(key, maxsplit) ==
    IF maxsplit = 0 \/ ~Contains(key, sKeySep) THEN <<key>>
    ELSE LET at == CHOOSE i \in 1..(Len(key) - 1) :
                       /\ SubSeq(key, i, i+1) = sKeySep
                       /\ \A j \in 1..(i-1) : SubSeq(key, j, j+1) # sKeySep
         IN  <<SubSeq(key, 1, at-1)>>
             \o SplitKey(SubSeq(key, at+2, Len(key)), maxsplit - 1)

\* e.get("name") == court_name and
\* e.get("address", {}).get("city", "").lower() == court_city.lower()
entry_matches(e, court_name, court_city) ==
    e.name = court_name /\ Lower(e.address.city) = Lower(court_city)

\* the positions in the cached file of the entries that match the key
matching_entries(data, court_name, court_city) ==
    {k \in 1..Len(data) : entry_matches(data[k], court_name, court_city)}

\* addr.get("unit", "")
\* a variant that hands no existing unit to the parser
unit_or_empty_dropped(addr) == <<>>

unit_or_empty(addr) == IF addr.unit = None THEN <<>> ELSE addr.unit[1]

\* x or y for two strings
\* a variant that takes the verified value even when it is empty
OrElse_verified(x, y) == x

OrElse(x, y) == IF x # <<>> THEN x ELSE y

\* a variant that builds the address anew from the verified fields, so that
\* what the verified fields do not carry (the county) is lost
apply_verified_rebuilt(entry, info, geo) ==
    LET addr == entry.address
        parsed == parse_verified_address(info.verified_address1, unit_or_empty(addr))
        address1 == OrElse(parsed.address_line1, addr.address)
        city == OrElse(info.verified_city, addr.city)
        state == OrElse(info.verified_state, addr.state)
        zip == OrElse(info.verified_zip, addr.zip)
    IN  [entry EXCEPT
           !.address = [address |-> address1,
                        unit |-> IF parsed.unit # <<>> THEN Some(parsed.unit) ELSE None,
                        city |-> city, state |-> state, zip |-> zip,
                        county |-> <<>>,
                        orig_address |->
                            build_orig_address(parsed.building, address1, parsed.unit,
                                               info.verified_address2, city, state,
                                               zip)],
           !.has_po_box = (info.verified_address2 # <<>>) \/ entry.has_po_box,
           !.location = IF geo # None THEN geo ELSE entry.location]

\* lines 153-197: the entry after the verified address was merged into it;
\* geo is what fetch_geofield returned (None also when the request failed)
apply_verified(entry, info, geo) ==
    LET addr == entry.address
        parsed == parse_verified_address(info.verified_address1, unit_or_empty(addr))
        address1 == OrElse(parsed.address_line1, addr.address)
        unit == IF parsed.unit # <<>> THEN Some(parsed.unit) ELSE None
        city == OrElse(info.verified_city, addr.city)
        state == OrElse(info.verified_state, addr.state)
        zip == OrElse(info.verified_zip, addr.zip)
        new_addr == [addr EXCEPT
                       !.address = address1,
                       !.unit = unit,
                       !.city = city,
                       !.state = state,
                       !.zip = zip,
                       !.orig_address =
                           build_orig_address(parsed.building, address1,
                                              IF unit = None THEN <<>> ELSE unit[1],
                                              info.verified_address2,
                                              city, state, zip)]
    IN  [entry EXCEPT
           !.address = new_addr,
           !.has_po_box = (info.verified_address2 # <<>>) \/ entry.has_po_box,
           !.location = IF geo # None THEN geo ELSE entry.location]

\* a variant that writes the file back as soon as one of its entries changed
disk_written_through(disk, source_file, data) ==
    [disk EXCEPT ![source_file] = data]

\* the files on disk while the loop runs: the loop writes none
disk_during_loop(disk, source_file, data) == disk

(***************************************************************************)
(* Specification SpecNorm: normalize_text applied twice to one input       *)
(***************************************************************************)
TextAlphabet == {"a", "B", " ", "\t", ".", ","}

InitNorm ==
    /\ nt_input \in StringsUpTo(TextAlphabet, MaxTextLen)
    /\ nt_val = nt_input
    /\ nt_first = <<>>
    /\ nt_calls = 0

\* one call of normalize_text on the previous result
Normalize ==
    /\ nt_calls < 2
    /\ nt_val' = normalize_text(nt_val)
    /\ nt_first' = IF nt_calls = 0 THEN normalize_text(nt_val) ELSE nt_first
    /\ nt_calls' = nt_calls + 1
    /\ UNCHANGED nt_input
    /\ UNCHANGED <<parseVars, recVars, reportVars, applyVars, mergeVars>>

NextNorm == Normalize

NormInit == InitNorm /\ IdleParse /\ IdleRecommend /\ IdleReport /\ IdleApply /\ IdleMerge

SpecNorm == NormInit /\ [][NextNorm]_vars

\* C3: normalize_text is idempotent: the second application returns what the
\* first one returned, for every input string.
C3_NormalizeTextIdempotent ==
    nt_calls = 2 => nt_val = nt_first

(***************************************************************************)
(* Specification SpecParse: one call of parse_verified_address             *)
(***************************************************************************)
\* the segments verified address strings are assembled from
SegmentPool ==
    { <<>>,
      <<" ">>,
      <<"W","o","r","c","e","s","t","e","r"," ","C","o","u","r","t","h","o","u","s","e">>,
      <<"O","l","d"," ","C","O","U","R","T","H","O","U","S","E"," ">>,
      <<"1"," ","M","a","i","n"," ","S","t">>,
      <<" ","S","u","i","t","e"," ","2">>,
      <<"c","o","u","r","t","h","o","u","s","e"," ","a","n","n","e","x">> }

ExistingUnitPool == { <<>>, <<"R","o","o","m"," ","1">> }

\* every string made of 1..n pool segments joined by commas
RECURSIVE SegmentStrings(_)
SegmentStrings(n) ==
    IF n = 1 THEN SegmentPool
    ELSE LET shorter == SegmentStrings(n-1)
         IN  shorter \cup {s \o <<",">> \o g : s \in shorter, g \in SegmentPool}

InitParse ==
    /\ pv_address1 \in SegmentStrings(MaxSegments)
    /\ pv_existing_unit \in ExistingUnitPool
    /\ pv_parsed = NotParsed
    /\ pv_pc = "call"

Parse ==
    /\ pv_pc = "call"
    /\ pv_parsed' = parse_verified_address(pv_address1, pv_existing_unit)
    /\ pv_pc' = "parsed"
    /\ UNCHANGED <<pv_address1, pv_existing_unit>>
    /\ UNCHANGED <<normVars, recVars, reportVars, applyVars, mergeVars>>

NextParse == Parse

ParseInit == IdleNorm /\ InitParse /\ IdleRecommend /\ IdleReport /\ IdleApply /\ IdleMerge

SpecParse == ParseInit /\ [][NextParse]_vars

\* the non-empty trimmed comma-separated parts of the input of the call
pv_parts == verified_parts(pv_address1)

\* C1 as stated: with zero or one part the returned unit is empty whatever the
\* existing unit was; one part gives line1 = that part and no building, zero
\* parts give three blank fields.
C1_ShortParseDiscardsUnit ==
    (pv_pc = "parsed" /\ Len(pv_parts) <= 1) =>
        /\ pv_parsed.unit = <<>>
        /\ pv_parsed.building = <<>>
        /\ pv_parsed.address_line1 = (IF Len(pv_parts) = 1 THEN pv_parts[1] ELSE <<>>)

\* C1 amended: with zero or one part the returned unit is the existing unit
\* passed by the caller; one part gives line1 = that part and no building,
\* zero parts give a blank building and a blank line1.
C1_ShortParseKeepsUnit ==
    (pv_pc = "parsed" /\ Len(pv_parts) <= 1) =>
        /\ pv_parsed.unit = pv_existing_unit
        /\ pv_parsed.building = <<>>
        /\ pv_parsed.address_line1 = (IF Len(pv_parts) = 1 THEN pv_parts[1] ELSE <<>>)

C1_Witness ==
    /\ pv_pc = "parsed"
    /\ Len(pv_parts) = 1
    /\ pv_existing_unit # <<>>
    /\ pv_parsed.address_line1 # <<>>

\* C10: with two or more parts, a first part containing "courthouse" in any
\* letter case gives building = part 1, line1 = part 2, unit = part 3 when
\* there is one (later parts dropped); any other first part gives no building,
\* line1 = part 1 and unit = parts 2.. joined with ", ".  Only the first part
\* decides.
C10_MultiPartParse ==
    (pv_pc = "parsed" /\ Len(pv_parts) >= 2) =>
        IF \E i \in 0..(Len(pv_parts[1]) - 10) :
               Lower(SubSeq(pv_parts[1], i+1, i+10)) = sCourthouse
        THEN /\ pv_parsed.building = pv_parts[1]
             /\ pv_parsed.address_line1 = pv_parts[2]
             /\ Len(pv_parts) >= 3 => pv_parsed.unit = pv_parts[3]
        ELSE /\ pv_parsed.building = <<>>
             /\ pv_parsed.address_line1 = pv_parts[1]
             /\ pv_parsed.unit =
                    (IF Len(pv_parts) = 2 THEN pv_parts[2]
                     ELSE Join(SubSeq(pv_parts, 2, Len(pv_parts)), sCommaSpace))

C10_Witness ==
    /\ pv_pc = "parsed"
    /\ Len(pv_parts) >= 4
    /\ pv_parsed.building # <<>>
    /\ pv_parsed.unit = pv_parts[3]
    /\ Contains(Lower(pv_parts[2]), sCourthouse)

(***************************************************************************)
(* Specification SpecReport: write_report for one local court              *)
(***************************************************************************)
sSourceFile == <<"d","i","s","t","r","i","c","t","_","c","o","u","r","t","s",".","j","s","o","n">>
sWorcesterDistrict == <<"W","o","r","c","e","s","t","e","r"," ","D","i","s","t","r","i","c","t"," ","C","o","u","r","t">>
sWorcesterSuperior == <<"W","o","r","c","e","s","t","e","r"," ","S","u","p","e","r","i","o","r"," ","C","o","u","r","t">>
sWorcesterHousing == <<"W","o","r","c","e","s","t","e","r"," ","H","o","u","s","i","n","g"," ","C","o","u","r","t">>
sBostonMunicipal == <<"B","o","s","t","o","n"," ","M","u","n","i","c","i","p","a","l"," ","C","o","u","r","t">>
sWorcester == <<"W","o","r","c","e","s","t","e","r">>
sBoston == <<"B","o","s","t","o","n">>
sMainStreet == <<"2","2","5"," ","M","a","i","n"," ","S","t","r","e","e","t">>
sMainSt == <<"2","2","5"," ","M","a","i","n"," ","S","t">>
sMainOnly == <<"M","a","i","n"," ","S","t">>
sChardon == <<"2","4"," ","N","e","w"," ","C","h","a","r","d","o","n"," ","S","t","r","e","e","t">>
sOrigMain == <<"2","2","5"," ","M","a","i","n"," ","S","t","r","e","e","t",","," ","W","o","r","c","e","s","t","e","r",","," ","M","A"," ","0","1","6","0","8">>

LocalCourt(name, city, address1, orig_address) ==
    [source_file |-> sSourceFile, name |-> name, city |-> city,
     address1 |-> address1, orig_address |-> orig_address]

LocalPool ==
    { LocalCourt(n, c, a, o) :
        n \in {sWorcesterDistrict, sWorcesterSuperior, sBostonMunicipal},
        c \in {sWorcester, sBoston, <<>>},
        a \in {sMainStreet, <<>>},
        o \in {sOrigMain, <<>>} }

Address(line1) == [address_line1 |-> line1]

MassGovLocation(title, addresses, cities) ==
    [title |-> title, addresses |-> addresses, cities |-> cities]

\* the cities of a location are already normalized when it is built
LocationPool ==
    { MassGovLocation(sWorcesterDistrict, <<Address(sMainSt)>>,
                      {normalize_text(sWorcester)}),
      MassGovLocation(sWorcesterDistrict, <<>>, {normalize_text(sWorcester)}),
      MassGovLocation(sWorcesterSuperior,
                      <<Address(sMainOnly), Address(sMainStreet)>>,
                      {normalize_text(sWorcester)}),
      MassGovLocation(sBostonMunicipal, <<Address(sChardon)>>,
                      {normalize_text(sBoston)}),
      MassGovLocation(sWorcesterHousing, <<Address(sMainStreet)>>, {}) }

\* every list of at most n pool locations
RECURSIVE LocationLists(_)
LocationLists(n) ==
    IF n = 0 THEN {<<>>}
    ELSE LET shorter == LocationLists(n-1)
         IN  shorter \cup {Append(l, x) : l \in shorter, x \in LocationPool}

ManualRecordPool ==
    [ preferred_source : {"", "verified"},
      final_action : {"", "update_local_from_verified"},
      verification_notes : {"", "Confirmed with the clerk"} ]

\* the verification tables tried for a local court: empty, one record under
\* the court's own key, one record under another court's key
ManualTables(l) ==
    {<<>>}
    \cup {[k \in {manual_key(l)} |-> m] : m \in ManualRecordPool}
    \cup {[k \in {manual_key(l) \o <<"x">>} |-> m] :
              m \in {[preferred_source |-> "verified",
                      final_action |-> "update_local_from_verified",
                      verification_notes |-> "Confirmed with the clerk"]}}

InitReport ==
    /\ rp_pc = "filter"
    /\ rp_local \in LocalPool
    /\ rp_locations \in LocationLists(MaxLocations)
    /\ ReportRest

\* candidates = candidate_locations(local.city, locations), and the start of
\* find_best_match
Filter ==
    /\ rp_pc = "filter"
    /\ rp_candidates' = candidate_locations(rp_local.city, rp_locations)
    /\ rp_pc' = "scan"
    /\ UNCHANGED <<rp_i, rp_best, rp_best_score, rp_best_addr_match,
                   rp_best_city_match, rp_cur>>
    /\ UNCHANGED <<reportInputs, rp_result, rp_heuristic, rp_manual, rp_row>>
    /\ UNCHANGED <<normVars, parseVars, recVars, applyVars, mergeVars>>

\* one iteration of "for loc in locations" in find_best_match
ScanCandidate ==
    /\ rp_pc = "scan"
    /\ rp_i <= Len(rp_candidates)
    /\ LET loc == rp_candidates[rp_i]
           sc == score_candidate(rp_local, loc)
       IN  /\ rp_cur' = sc
           /\ IF RatLess(rp_best_score, sc.score)
              THEN /\ rp_best' = Some(loc)
                   /\ rp_best_score' = sc.score
                   /\ rp_best_addr_match' = sc.addr_match
                   /\ rp_best_city_match' = sc.city_match
              ELSE UNCHANGED <<rp_best, rp_best_score, rp_best_addr_match,
                               rp_best_city_match>>
    /\ rp_i' = rp_i + 1
    /\ UNCHANGED <<rp_pc, rp_candidates>>
    /\ UNCHANGED <<reportInputs, rp_result, rp_heuristic, rp_manual, rp_row>>
    /\ UNCHANGED <<normVars, parseVars, recVars, applyVars, mergeVars>>

\* the end of find_best_match: the confidence floor
ReturnBest ==
    /\ rp_pc = "scan"
    /\ rp_i > Len(rp_candidates)
    /\ rp_result' = select_result(rp_best, rp_best_score, rp_best_addr_match,
                                  rp_best_city_match)
    /\ rp_pc' = "recommend"
    /\ UNCHANGED <<reportInputs, scanVars, rp_heuristic, rp_manual, rp_row>>
    /\ UNCHANGED <<normVars, parseVars, recVars, applyVars, mergeVars>>

Recommend ==
    /\ rp_pc = "recommend"
    /\ rp_heuristic' = recommend_action(rp_local, rp_result.match, rp_result.score,
                                     rp_result.addr_match, rp_result.city_match)
    /\ rp_pc' = "write"
    /\ UNCHANGED <<reportInputs, scanVars, rp_result, rp_manual, rp_row>>
    /\ UNCHANGED <<normVars, parseVars, recVars, applyVars, mergeVars>>

\* the verification table (read-only, loaded from its file), the override
\* and the row written for the court
WriteRow ==
    /\ rp_pc = "write"
    /\ \E table \in ManualTables(rp_local) :
         LET manual == manual_get(table, manual_key(rp_local))
             final == manual_override(rp_heuristic, manual)
         IN  /\ rp_manual' = table
             /\ rp_row' = [ court_name |-> rp_local.name,
                         massgov_name |-> IF rp_result.match # None
                                          THEN rp_result.match[1].title ELSE <<>>,
                         massgov_match_score |-> IF rp_result.match # None
                                                 THEN Some(rp_result.score) ELSE None,
                         address_match |-> rp_result.addr_match,
                         city_match |-> rp_result.city_match,
                         recommended_action |-> final.action,
                         preferred_source |-> final.preferred,
                         notes |-> final.note,
                         verification_notes |-> manual.verification_notes,
                         final_action |-> manual.final_action ]
    /\ rp_pc' = "done"
    /\ UNCHANGED <<reportInputs, scanVars, rp_result, rp_heuristic>>
    /\ UNCHANGED <<normVars, parseVars, recVars, applyVars, mergeVars>>

NextReport ==
    \/ Filter
    \/ ScanCandidate
    \/ ReturnBest
    \/ Recommend
    \/ WriteRow

ReportInit == IdleNorm /\ IdleParse /\ IdleRecommend /\ InitReport /\ IdleApply /\ IdleMerge

SpecReport == ReportInit /\ [][NextReport]_vars

(***************************************************************************)
(* Specification SpecRecommend: one call of recommend_action               *)
(***************************************************************************)
InitRecommend ==
    /\ ra_match \in {None} \cup {Some(l) : l \in LocationPool}
    /\ ra_score \in {Rat(n, 20) : n \in 0..MaxScoreTwentieths}
    /\ ra_addr_match \in BOOLEAN
    /\ ra_city_match \in BOOLEAN
    /\ ra_out = NoRecommendation
    /\ ra_pc = "call"

RecommendCall ==
    /\ ra_pc = "call"
    /\ ra_out' = recommend_action(NoLocal, ra_match, ra_score, ra_addr_match,
                                  ra_city_match)
    /\ ra_pc' = "done"
    /\ UNCHANGED <<ra_match, ra_score, ra_addr_match, ra_city_match>>
    /\ UNCHANGED <<normVars, parseVars, reportVars, applyVars, mergeVars>>

NextRecommend == RecommendCall

RecommendInit == IdleNorm /\ IdleParse /\ InitRecommend /\ IdleReport /\ IdleApply /\ IdleMerge

SpecRecommend == RecommendInit /\ [][NextRecommend]_vars

(***************************************************************************)
(* Specification SpecApply: main of apply_verified_address_updates.py      *)
(***************************************************************************)
sSecondFile == <<"h","o","u","s","i","n","g","_","c","o","u","r","t","s",".","j","s","o","n">>
sMissingFile == <<"o","l","d","_","c","o","u","r","t","s",".","j","s","o","n">>
sMA == <<"M","A">>
sZipWorcester == <<"0","1","6","0","8">>
sZipBoston == <<"0","2","1","0","8">>
sRoom1 == <<"R","o","o","m"," ","1">>
sVerifiedCourthouse == <<"S","u","f","f","o","l","k"," ","C","o","u","r","t","h","o","u","s","e",","," ","3"," ","P","e","m","b","e","r","t","o","n"," ","S","q",","," ","R","o","o","m"," ","4">>
sVerifiedPlain == <<"1"," ","P","a","r","k"," ","A","v","e">>
sPoBox == <<"P","O"," ","B","o","x"," ","5">>
sCodeA == <<"D","1">>
sCodeB == <<"D","2">>

LocalAddress(address, unit, city, zip, orig_address) ==
    [address |-> address, unit |-> unit, city |-> city, state |-> sMA,
     zip |-> zip, county |-> sWorcester, orig_address |-> orig_address]

Entry(name, court_code, address) ==
    [name |-> name, court_code |-> court_code, has_po_box |-> FALSE,
     location |-> None, address |-> address]

EntryWorcester ==
    Entry(sWorcesterDistrict, sCodeA,
          LocalAddress(sMainStreet, Some(sRoom1), sWorcester, sZipWorcester,
                       sOrigMain))

\* a second entry with the same name and the same city in other letter case
EntryWorcesterAgain ==
    Entry(sWorcesterDistrict, sCodeB,
          LocalAddress(sMainSt, None, Lower(sWorcester), sZipWorcester, <<>>))

EntryBoston ==
    Entry(sBostonMunicipal, sCodeB,
          LocalAddress(sChardon, None, sBoston, sZipBoston, <<>>))

EntryHousing ==
    Entry(sWorcesterHousing, sCodeA,
          LocalAddress(sMainStreet, None, sWorcester, sZipWorcester, sOrigMain))

\* the contents the source files may have when the run begins
DiskPool ==
    { [f \in {sSourceFile, sSecondFile} |->
          IF f = sSourceFile THEN first ELSE <<EntryHousing>>] :
      first \in { <<EntryWorcester>>,
                  <<EntryWorcester, EntryWorcesterAgain>>,
                  <<EntryBoston, EntryWorcester>> } }

KeyOf(source_file, name, city) ==
    source_file \o sKeySep \o name \o sKeySep \o city

Info(final_action, address1, address2, city, zip) ==
    [final_action |-> final_action, verified_address1 |-> address1,
     verified_address2 |-> address2, verified_city |-> city,
     verified_state |-> <<>>, verified_zip |-> zip]

Verification(key, info) == [key |-> key, info |-> info]

VerificationPool ==
    { \* the Worcester court moved to Boston
      Verification(KeyOf(sSourceFile, sWorcesterDistrict, sWorcester),
                   Info("update_local_from_verified", sVerifiedCourthouse, <<>>,
                        sBoston, sZipBoston)),
      \* the same court under the key it has once it is in Boston
      Verification(KeyOf(sSourceFile, sWorcesterDistrict, sBoston),
                   Info("update_local_from_verified", sVerifiedPlain, <<>>,
                        <<>>, <<>>)),
      \* a court of the second file, its city in lower case in the key
      Verification(KeyOf(sSecondFile, sWorcesterHousing, Lower(sWorcester)),
                   Info("update_local_from_verified", sVerifiedPlain, sPoBox,
                        <<>>, <<>>)),
      \* a record that asks for no update
      Verification(KeyOf(sSourceFile, sBostonMunicipal, sBoston),
                   Info("no_change", <<>>, <<>>, <<>>, <<>>)),
      \* a key with two pieces only
      Verification(sSourceFile \o sKeySep \o sWorcesterDistrict,
                   Info("update_local_from_verified", sVerifiedPlain, <<>>,
                        <<>>, <<>>)),
      \* a key that names a file that does not exist
      Verification(KeyOf(sMissingFile, sWorcesterDistrict, sWorcester),
                   Info("update_local_from_verified", sVerifiedPlain, <<>>,
                        <<>>, <<>>)) }

\* every list of at most n pool records with different keys
RECURSIVE VerificationLists(_)
VerificationLists(n) ==
    IF n = 0 THEN {<<>>}
    ELSE LET shorter == VerificationLists(n-1)
         IN  shorter \cup
             {Append(pair[1], pair[2]) :
                 pair \in {q \in shorter \X VerificationPool :
                              \A k \in 1..Len(q[1]) : q[1][k].key # q[2].key}}

\* what fetch_geofield can return: nothing, or a point found on mass.gov
GeoPool == {None, Some([latitude |-> 42, longitude |-> -71])}

InitApply ==
    /\ ap_pc = "loop"
    /\ ap_manual \in VerificationLists(MaxRecords)
    /\ ap_disk \in DiskPool
    /\ ap_disk0 = ap_disk
    /\ ap_cache = <<>>
    /\ ap_order = <<>>
    /\ ap_i = 1
    /\ ap_w = 1
    /\ ap_error = None

\* the record the loop is at, and the pieces of its key
ap_item == ap_manual[ap_i]

ap_key == SplitKey(ap_item.key, 2)

InLoop == ap_pc = "loop" /\ ap_i <= Len(ap_manual)

Updating == InLoop /\ ap_item.info.final_action = "update_local_from_verified"

Keyed == Updating /\ Len(ap_key) = 3

Readable == Keyed /\ ap_key[1] \in DOMAIN ap_disk

\* files_cache after "if source_file not in files_cache: ... read_text()"
cache_loaded ==
    IF ap_key[1] \in DOMAIN ap_cache THEN ap_cache
    ELSE [f \in DOMAIN ap_cache \cup {ap_key[1]} |->
             IF f = ap_key[1] THEN ap_disk[f] ELSE ap_cache[f]]

order_loaded ==
    IF ap_key[1] \in DOMAIN ap_cache THEN ap_order ELSE Append(ap_order, ap_key[1])

ap_entries == matching_entries(cache_loaded[ap_key[1]], ap_key[2], ap_key[3])

\* the exception leaves main: its type, and the text its message carries
Abort(exception, text) ==
    /\ ap_pc' = "aborted"
    /\ ap_error' = Some([exception |-> exception, text |-> text])
    /\ UNCHANGED <<ap_manual, ap_disk, ap_disk0, ap_i, ap_w>>
    /\ UNCHANGED <<normVars, parseVars, recVars, reportVars, mergeVars>>

\* if info.get("final_action") != "update_local_from_verified": continue
SkipRecord ==
    /\ InLoop
    /\ ap_item.info.final_action # "update_local_from_verified"
    /\ ap_i' = ap_i + 1
    /\ UNCHANGED <<ap_pc, ap_manual, ap_disk, ap_disk0, ap_cache, ap_order, ap_w,
                   ap_error>>
    /\ UNCHANGED <<normVars, parseVars, recVars, reportVars, mergeVars>>

\* source_file, court_name, court_city = key.split("::", 2) with fewer than
\* three pieces
AbortMalformedKey ==
    /\ Updating
    /\ Len(ap_key) # 3
    /\ Abort("ValueError", <<"not enough values to unpack">>)
    /\ UNCHANGED <<ap_cache, ap_order>>

\* file_path.read_text() of a file that does not exist
AbortMissingFile ==
    /\ Keyed
    /\ ap_key[1] \notin DOMAIN ap_cache
    /\ ap_key[1] \notin DOMAIN ap_disk
    /\ Abort("FileNotFoundError", <<"No such file or directory", ap_key[1]>>)
    /\ UNCHANGED <<ap_cache, ap_order>>

\* raise RuntimeError(f"No entry found for {key}")
AbortNoEntry ==
    /\ Readable
    /\ ap_entries = {}
    /\ Abort("RuntimeError", <<"No entry found for", ap_item.key>>)
    /\ ap_cache' = cache_loaded
    /\ ap_order' = order_loaded

\* raise RuntimeError(f"Multiple entries found for {key}")
AbortMultipleEntries ==
    /\ Readable
    /\ Cardinality(ap_entries) > 1
    /\ Abort("RuntimeError", <<"Multiple entries found for", ap_item.key>>)
    /\ ap_cache' = cache_loaded
    /\ ap_order' = order_loaded

\* the one matching entry is updated in files_cache
ApplyRecord ==
    /\ Readable
    /\ Cardinality(ap_entries) = 1
    /\ \E geo \in GeoPool :
         LET k == CHOOSE k \in ap_entries : TRUE
             data == [cache_loaded[ap_key[1]] EXCEPT
                        ![k] = apply_verified(@, ap_item.info, geo)]
         IN  /\ ap_cache' = [cache_loaded EXCEPT ![ap_key[1]] = data]
             /\ ap_disk' = disk_during_loop(ap_disk, ap_key[1], data)
    /\ ap_order' = order_loaded
    /\ ap_i' = ap_i + 1
    /\ UNCHANGED <<ap_pc, ap_manual, ap_disk0, ap_w, ap_error>>
    /\ UNCHANGED <<normVars, parseVars, recVars, reportVars, mergeVars>>

\* the loop over the table is over: on to "for source_file, data in
\* files_cache.items()"
EndLoop ==
    /\ ap_pc = "loop"
    /\ ap_i > Len(ap_manual)
    /\ ap_pc' = "persist"
    /\ UNCHANGED <<ap_manual, ap_disk, ap_disk0, ap_cache, ap_order, ap_i, ap_w,
                   ap_error>>
    /\ UNCHANGED <<normVars, parseVars, recVars, reportVars, mergeVars>>

\* file_path.write_text(json.dumps(data, ...)) for the next cached file
PersistFile ==
    /\ ap_pc = "persist"
    /\ ap_w <= Len(ap_order)
    /\ ap_disk' = [ap_disk EXCEPT ![ap_order[ap_w]] = ap_cache[ap_order[ap_w]]]
    /\ ap_w' = ap_w + 1
    /\ UNCHANGED <<ap_pc, ap_manual, ap_disk0, ap_cache, ap_order, ap_i, ap_error>>
    /\ UNCHANGED <<normVars, parseVars, recVars, reportVars, mergeVars>>

Finish ==
    /\ ap_pc = "persist"
    /\ ap_w > Len(ap_order)
    /\ ap_pc' = "done"
    /\ UNCHANGED <<ap_manual, ap_disk, ap_disk0, ap_cache, ap_order, ap_i, ap_w,
                   ap_error>>
    /\ UNCHANGED <<normVars, parseVars, recVars, reportVars, mergeVars>>

NextApply ==
    \/ SkipRecord
    \/ AbortMalformedKey
    \/ AbortMissingFile
    \/ AbortNoEntry
    \/ AbortMultipleEntries
    \/ ApplyRecord
    \/ EndLoop
    \/ PersistFile
    \/ Finish

ApplyInit == IdleNorm /\ IdleParse /\ IdleRecommend /\ IdleReport /\ InitApply /\ IdleMerge

SpecApply == ApplyInit /\ [][NextApply]_vars

(***************************************************************************)
(* Specification SpecMerge: the update of one entry by one verification    *)
(* record (main, lines 141-197), in successive runs over the same table    *)
(***************************************************************************)
sAyer == <<"A","y","e","r">>
sAyerKey == <<"A","Y","E","R">>
sLee == <<"L","e","e">>
sElm == <<"9"," ","E","l","m"," ","S","t">>
sOrigElm == <<"9"," ","E","l","m"," ","S","t",","," ","A","y","e","r",","," ","M","A"," ","0","1","6","0","8">>
sBlank == <<" ">>

\* verified_address1 in each of its shapes: no part, one part, two parts and
\* more, with and without a courthouse in front, with stray blanks and commas
VerifiedAddressPool ==
    { <<>>,
      <<" ",","," ",",">>,
      <<"1"," ","M","a","i","n"," ","S","t">>,
      <<"A","y","e","r"," ","C","o","u","r","t","h","o","u","s","e">>,
      <<"1"," ","M","a","i","n"," ","S","t",","," ","S","u","i","t","e"," ","2">>,
      <<"1"," ","M","a","i","n"," ","S","t",","," ","S","u","i","t","e"," ","2",","," ","F","l","o","o","r"," ","3">>,
      <<"A","y","e","r"," ","C","o","u","r","t","h","o","u","s","e",","," ","1"," ","M","a","i","n"," ","S","t">>,
      <<"A","y","e","r"," ","C","o","u","r","t","h","o","u","s","e",","," ","1"," ","M","a","i","n"," ","S","t",","," ","R","o","o","m"," ","4">>,
      <<"A","y","e","r"," ","C","O","U","R","T","H","O","U","S","E",","," ","1"," ","M","a","i","n"," ","S","t",","," ","R","o","o","m"," ","4",","," ","R","e","a","r">>,
      <<" ","1"," ","M","a","i","n"," ","S","t"," ",",",","," ","S","u","i","t","e"," ","2"," ">> }

\* the "unit" of an entry: no such key, an empty string, a unit, a blank
PriorUnitPool == {None, Some(<<>>), Some(sRoom1), Some(sBlank)}

MergeEntryPool ==
    { [Entry(sWorcesterDistrict, sCodeA,
             LocalAddress(address, unit, sAyer, zip, sOrigElm))
         EXCEPT !.has_po_box = po] :
      address \in {<<>>, sElm}, unit \in PriorUnitPool,
      zip \in {<<>>, sZipWorcester}, po \in BOOLEAN }

MergeInfoPool ==
    { [final_action |-> "update_local_from_verified", verified_address1 |-> a1,
       verified_address2 |-> a2, verified_city |-> city,
       verified_state |-> state, verified_zip |-> zip] :
      a1 \in VerifiedAddressPool, a2 \in {<<>>, sPoBox},
      city \in {<<>>, sAyer, sLee}, state \in {<<>>, sMA},
      zip \in {<<>>, sZipBoston} }

\* the record's key names the entry, its city in other letter case
InitMerge ==
    /\ mg_pc = "run"
    /\ mg_info \in MergeInfoPool
    /\ mg_city = sAyerKey
    /\ \E e \in MergeEntryPool : mg_hist = <<e>>

mg_entry == mg_hist[Len(mg_hist)]

mg_runs == Len(mg_hist) - 1

\* a run finds the entry under the key and updates it
MergeApply ==
    /\ mg_pc = "run"
    /\ mg_runs < MaxRuns
    /\ entry_matches(mg_entry, sWorcesterDistrict, mg_city)
    /\ \E geo \in GeoPool :
           mg_hist' = Append(mg_hist, apply_verified(mg_entry, mg_info, geo))
    /\ UNCHANGED <<mg_pc, mg_info, mg_city>>
    /\ UNCHANGED <<normVars, parseVars, recVars, reportVars, applyVars>>

\* a run no longer finds the entry under the key: No entry found
MergeNoEntry ==
    /\ mg_pc = "run"
    /\ mg_runs < MaxRuns
    /\ ~entry_matches(mg_entry, sWorcesterDistrict, mg_city)
    /\ mg_pc' = "aborted"
    /\ UNCHANGED <<mg_info, mg_city, mg_hist>>
    /\ UNCHANGED <<normVars, parseVars, recVars, reportVars, applyVars>>

NextMerge ==
    \/ MergeApply
    \/ MergeNoEntry

MergeInit ==
    IdleNorm /\ IdleParse /\ IdleRecommend /\ IdleReport /\ IdleApply /\ InitMerge

SpecMerge == MergeInit /\ [][NextMerge]_vars

(***************************************************************************)
(* Claims about the apply pass                                             *)
(***************************************************************************)
C5_Update(k) == ap_manual[k].info.final_action = "update_local_from_verified"

C5_KeyOf(k) == SplitKey(ap_manual[k].key, 2)

\* record k names a file that exists and matches other than one of the
\* entries that file has on disk when the run begins
C5_BadOnFile(k) ==
    /\ C5_Update(k)
    /\ Len(C5_KeyOf(k)) = 3
    /\ C5_KeyOf(k)[1] \in DOMAIN ap_disk0
    /\ Cardinality(matching_entries(ap_disk0[C5_KeyOf(k)[1]], C5_KeyOf(k)[2],
                                    C5_KeyOf(k)[3])) # 1

\* the record the loop is at matches other than one of the entries of the
\* in-memory copy of its file, earlier edits of this run included
C5_BadInMemory == Readable /\ Cardinality(ap_entries) # 1

C5_Raised ==
    Some([exception |-> "RuntimeError",
          text |-> <<IF ap_entries = {} THEN "No entry found for"
                     ELSE "Multiple entries found for", ap_item.key>>])

C5_NothingPersisted ==
    /\ ap_pc = "aborted" => ap_disk = ap_disk0
    /\ ap_disk # ap_disk0 =>
         /\ ap_pc \in {"persist", "done"}
         /\ ap_i > Len(ap_manual)
         /\ ap_error = None

C5_AbortStep ==
    C5_BadInMemory => /\ ap_pc' = "aborted"
                      /\ ap_error' = C5_Raised
                      /\ ap_disk' = ap_disk0

C5_WriteStep ==
    ap_disk' # ap_disk => /\ ap_pc = "persist"
                          /\ ap_i > Len(ap_manual)
                          /\ ap_error = None

\* C5, read against the files as they are on disk when the run begins: a
\* table holding an update record whose key matches zero or several entries
\* of its file never reaches the write loop, and the files stay as they were.
C5_BadKeyOnFileAborts ==
    (\E k \in 1..Len(ap_manual) : C5_BadOnFile(k)) =>
        /\ ap_pc \notin {"persist", "done"}
        /\ ap_disk = ap_disk0

\* C5: when the loop reaches an update record whose key matches zero or
\* several entries of the in-memory copy of its source file (the copy that
\* carries the edits of the records processed before it), the run aborts
\* with a RuntimeError naming that key and no file is written, the earlier
\* in-memory edits included; a file is written only in the final loop, after
\* every record was processed without error.
C5_AbortPersistsNothing ==
    /\ []C5_NothingPersisted
    /\ [][C5_AbortStep /\ C5_WriteStep]_vars

\* a run that aborted on a key after an earlier record had edited the
\* in-memory copy of a file
C5_Witness ==
    /\ ap_pc = "aborted"
    /\ ap_i > 1
    /\ ap_error # None
    /\ ap_error[1].exception = "RuntimeError"
    /\ ap_error[1].text[2] = ap_item.key
    /\ \E f \in DOMAIN ap_cache : ap_cache[f] # ap_disk0[f]

\* the fields of an entry that no verification record carries a value for
C13_FieldsKept(before, after) ==
    /\ after.name = before.name
    /\ after.court_code = before.court_code
    /\ after.address.county = before.address.county

\* a record is applied: in files_cache only the entry named by the key
\* changes, and of that entry neither the name, the code, the county nor
\* (where location_kept) the location; the files on disk stay as they are
C13_RecordStep(location_kept) ==
    (Updating /\ ap_i' = ap_i + 1) =>
        LET before == cache_loaded[ap_key[1]]
            after == ap_cache'[ap_key[1]]
        IN  /\ DOMAIN ap_cache' = DOMAIN cache_loaded
            /\ \A f \in DOMAIN cache_loaded \ {ap_key[1]} :
                   ap_cache'[f] = cache_loaded[f]
            /\ Len(after) = Len(before)
            /\ \A j \in 1..Len(before) :
                   IF j \in ap_entries
                   THEN /\ C13_FieldsKept(before[j], after[j])
                        /\ IF location_kept
                           THEN after[j].location = before[j].location
                           ELSE after[j].location \in
                                    {before[j].location} \cup (GeoPool \ {None})
                   ELSE after[j] = before[j]
            /\ ap_disk' = ap_disk

\* a record whose final_action is not update_local_from_verified
C13_SkipStep ==
    (InLoop /\ ~Updating) => (ap_cache' = ap_cache /\ ap_disk' = ap_disk)

\* what is written is a file of files_cache, as it stands there
C13_PersistStep ==
    (ap_pc = "persist" /\ ap_disk' # ap_disk) =>
        \E f \in DOMAIN ap_cache : ap_disk' = [ap_disk EXCEPT ![f] = ap_cache[f]]

\* every file, in memory and on disk, has the entries it began with, in
\* their order, each with its name, code and county
C13_SameEntries ==
    /\ \A f \in DOMAIN ap_cache :
           /\ Len(ap_cache[f]) = Len(ap_disk0[f])
           /\ \A j \in 1..Len(ap_cache[f]) :
                  C13_FieldsKept(ap_disk0[f][j], ap_cache[f][j])
    /\ \A f \in DOMAIN ap_disk :
           /\ Len(ap_disk[f]) = Len(ap_disk0[f])
           /\ \A j \in 1..Len(ap_disk[f]) :
                  C13_FieldsKept(ap_disk0[f][j], ap_disk[f][j])

\* C13 as stated: applying a record changes the structured address and
\* has_po_box of the one entry its key names and nothing else: every other
\* field of that entry, its location included, and every other entry keep
\* their values and order; a record that asks for no update changes nothing.
C13_OnlyAddressAndPoBox ==
    /\ []C13_SameEntries
    /\ [][C13_RecordStep(TRUE) /\ C13_SkipStep /\ C13_PersistStep]_vars

\* C13 amended: besides the structured address and has_po_box, the location
\* of the entry is replaced by the point fetch_geofield found, when it found
\* one; the name, code and county of the entry, every other entry and their
\* order are kept, and a record that asks for no update changes nothing.
C13_AddressPoBoxAndLocation ==
    /\ []C13_SameEntries
    /\ [][C13_RecordStep(FALSE) /\ C13_SkipStep /\ C13_PersistStep]_vars

\* a finished run over a file of two entries and a table with a record that
\* asks for no update: one entry has a new address and a location, the
\* other is as it was
C13_Witness ==
    /\ ap_pc = "done"
    /\ \E i \in 1..Len(ap_manual) : ap_manual[i].info.final_action = "no_change"
    /\ \E f \in DOMAIN ap_disk :
           /\ Len(ap_disk[f]) = 2
           /\ \E j, m \in 1..2 :
                  /\ j # m
                  /\ ap_disk[f][j].address # ap_disk0[f][j].address
                  /\ ap_disk[f][j].location # None
                  /\ ap_disk0[f][j].location = None
                  /\ ap_disk[f][m] = ap_disk0[f][m]

(***************************************************************************)
(* Claims about the update of one entry                                    *)
(***************************************************************************)
\* the runs that updated the entry: run k made mg_hist[k+1] of mg_hist[k]
MergeRuns == 1..mg_runs

\* the unit the verified address string yields by itself
C11_OwnUnit == parse_verified_address(mg_info.verified_address1, <<>>).unit

C11_UnitAfter(k) == mg_hist[k+1].address.unit

\* C11 as stated: after the update the unit field is present exactly when
\* the verified address string itself yields a unit, and is that unit; a
\* unit the entry had before does not survive a string that supplies none.
C11_UnitFromVerifiedOnly ==
    \A k \in MergeRuns :
        C11_UnitAfter(k) = (IF C11_OwnUnit # <<>> THEN Some(C11_OwnUnit) ELSE None)

\* C11 amended: the unit field is the unit the verified string yields when it
\* yields one; when it yields none (no part, one part, or a courthouse and
\* one more part) a non-empty unit the entry had before is kept, and the
\* field is absent only if the entry had no unit or an empty one.
C11_UnitKeptWhenNoneVerified ==
    \A k \in MergeRuns :
        C11_UnitAfter(k) =
            (IF C11_OwnUnit # <<>> THEN Some(C11_OwnUnit)
             ELSE IF mg_hist[k].address.unit \notin {None, Some(<<>>)}
                  THEN mg_hist[k].address.unit
                  ELSE None)

\* an entry with a unit, updated from a one-part verified string, keeps it
C11_Witness ==
    /\ mg_runs >= 1
    /\ mg_hist[1].address.unit = Some(sRoom1)
    /\ Len(verified_parts(mg_info.verified_address1)) = 1
    /\ mg_hist[2].address.unit = Some(sRoom1)

\* the address line the verified address string yields
C12_VerifiedLine == parse_verified_address(mg_info.verified_address1, <<>>).address_line1

C12_Fallback(verified, before, after) ==
    /\ after = (IF verified # <<>> THEN verified ELSE before)
    /\ before # <<>> => after # <<>>

\* C12: after each update, the address line, city, state and zip are the
\* verified value when that is non-empty and the entry's prior value
\* otherwise; none of the four goes from non-empty to empty; a verified
\* address string with no non-empty part leaves the address line as it was.
C12_VerifiedOrPrior ==
    \A k \in MergeRuns :
        LET before == mg_hist[k].address
            after == mg_hist[k+1].address
        IN  /\ C12_Fallback(C12_VerifiedLine, before.address, after.address)
            /\ C12_Fallback(mg_info.verified_city, before.city, after.city)
            /\ C12_Fallback(mg_info.verified_state, before.state, after.state)
            /\ C12_Fallback(mg_info.verified_zip, before.zip, after.zip)
            /\ verified_parts(mg_info.verified_address1) = <<>> =>
                   after.address = before.address

\* a verified string of commas and blanks only, and no verified zip: the
\* entry keeps its address line and zip, and takes the verified city
C12_Witness ==
    /\ mg_runs >= 1
    /\ mg_info.verified_address1 # <<>>
    /\ verified_parts(mg_info.verified_address1) = <<>>
    /\ mg_info.verified_zip = <<>>
    /\ mg_info.verified_city = sLee
    /\ mg_hist[1].address.address = sElm
    /\ mg_hist[2].address.address = sElm
    /\ mg_hist[2].address.zip = sZipWorcester
    /\ mg_hist[2].address.city = sLee

\* the record's verified city leaves the entry under the record's key
C14_StillKeyed ==
    \/ mg_info.verified_city = <<>>
    \/ Lower(mg_info.verified_city) = Lower(mg_city)

\* C14: when the verified city is empty or is the key's city up to letter
\* case, a further run finds the entry again, and applying the same record
\* again leaves the address line, unit, city, state, zip, has_po_box and
\* orig_address as the first application left them, for every shape of the
\* verified address string and every prior unit.
C14_SecondApplyChangesNothing ==
    C14_StillKeyed =>
        /\ mg_pc # "aborted"
        /\ \A k \in MergeRuns \ {1} :
               /\ mg_hist[k+1].address = mg_hist[k].address
               /\ mg_hist[k+1].has_po_box = mg_hist[k].has_po_box

\* an entry with a unit, updated twice from a verified string that carries
\* a courthouse, a line and a unit of its own: the first run changed it,
\* the second did not
C14_Witness ==
    /\ C14_StillKeyed
    /\ mg_runs >= 2
    /\ mg_hist[1].address.unit = Some(sRoom1)
    /\ Len(verified_parts(mg_info.verified_address1)) >= 3
    /\ mg_info.verified_address2 # <<>>
    /\ mg_hist[2].address # mg_hist[1].address
    /\ mg_hist[2].address.unit # Some(sRoom1)
    /\ mg_hist[3].address = mg_hist[2].address

(***************************************************************************)
(* Claims about the reporting pass                                         *)
(***************************************************************************)
Recommended == rp_pc \in {"write", "done"}

AtLeast(score, n, d) == score.num * d >= n * score.den

\* two address lines with the same tokens up to letter case, except that a
\* token of one may be the long or the short form of the other's in the
\* street-suffix table, and that do differ
SuffixSpellingOnly(x, y) ==
    LET tx == Tokens(Lower(x))
        ty == Tokens(Lower(y))
    IN  /\ x # y
        /\ tx # <<>>
        /\ Len(tx) = Len(ty)
        /\ \A i \in 1..Len(tx) :
               \/ tx[i] = ty[i]
               \/ <<tx[i], ty[i]>> \in ADDRESS_ABBREVIATIONS
               \/ <<ty[i], tx[i]>> \in ADDRESS_ABBREVIATIONS

\* the local court and a listed location of the end-to-end example
C2_Case ==
    /\ rp_local.name = sWorcesterDistrict
    /\ rp_local.city = sWorcester
    /\ \E i \in 1..Len(rp_locations) :
           /\ rp_locations[i].title = sWorcesterDistrict
           /\ normalize_text(rp_local.city) \in rp_locations[i].cities
           /\ \E k \in 1..Len(rp_locations[i].addresses) :
                  SuffixSpellingOnly(rp_locations[i].addresses[k].address_line1,
                                     rp_local.address1)

\* C2 as stated: for "Worcester District Court" in "Worcester" and a location
\* of the same title and city whose address differs in suffix spelling only,
\* filtering, selection and recommendation give a match with score >= 0.8 and
\* the action update_local_from_massgov with preferred source massgov.
C2_EndToEndAdoptsMassgov ==
    (Recommended /\ C2_Case) =>
        /\ rp_result.match # None
        /\ AtLeast(rp_result.score, 8, 10)
        /\ rp_heuristic.action = "update_local_from_massgov"
        /\ rp_heuristic.preferred = "massgov"

\* C2 amended: in that case the two address lines normalize to the same
\* string, so the match has score >= 0.8 and addressMatched, and the
\* recommended action is no_change with preferred source local.
C2_EndToEndKeepsLocal ==
    (Recommended /\ C2_Case) =>
        /\ rp_result.match # None
        /\ AtLeast(rp_result.score, 8, 10)
        /\ rp_result.addr_match
        /\ rp_heuristic.action = "no_change"
        /\ rp_heuristic.preferred = "local"

C2_Witness ==
    /\ Recommended
    /\ C2_Case
    /\ rp_result.match # None
    /\ rp_result.match[1].title = sWorcesterDistrict
    /\ rp_heuristic.action = "no_change"

\* the verification record filed under the key of the local court
C4_Record == rp_manual[manual_key(rp_local)]

\* C4 as stated: when a verification record exists for the key of the local
\* court, the row's preferred source, action and note are the record's
\* preferred_source, final_action and notes, whatever they hold.
C4_ManualAlwaysWins ==
    (rp_pc = "done" /\ manual_key(rp_local) \in DOMAIN rp_manual) =>
        /\ rp_row.preferred_source = C4_Record.preferred_source
        /\ rp_row.recommended_action = C4_Record.final_action
        /\ rp_row.notes = C4_Record.verification_notes

\* C4 amended: when a verification record exists for the key, each of the
\* three row fields is the record's field when that field is non-empty, and
\* the heuristic recommendation's value when it is empty or missing.
C4_ManualWinsWhereFilled ==
    (rp_pc = "done" /\ manual_key(rp_local) \in DOMAIN rp_manual) =>
        /\ rp_row.preferred_source =
               (IF C4_Record.preferred_source # "" THEN C4_Record.preferred_source
                ELSE rp_heuristic.preferred)
        /\ rp_row.recommended_action =
               (IF C4_Record.final_action # "" THEN C4_Record.final_action
                ELSE rp_heuristic.action)
        /\ rp_row.notes =
               (IF C4_Record.verification_notes # "" THEN C4_Record.verification_notes
                ELSE rp_heuristic.note)

C4_Witness ==
    /\ rp_pc = "done"
    /\ manual_key(rp_local) \in DOMAIN rp_manual
    /\ C4_Record.preferred_source = "verified"
    /\ C4_Record.verification_notes = ""
    /\ rp_row.preferred_source = "verified"
    /\ rp_row.notes = rp_heuristic.note
    /\ rp_heuristic.action = "update_local_from_massgov"

Selected == rp_pc \in {"recommend", "write", "done"}

\* C6: what find_best_match returns is either no location with score 0 and
\* both flags false, or a location with score >= 0.6; a winning raw score
\* below 0.6 is returned as no match with both flags false.
C6_ConfidenceFloor ==
    Selected =>
        /\ \/ /\ rp_result.match = None
              /\ rp_result.score.num = 0
              /\ ~rp_result.addr_match
              /\ ~rp_result.city_match
           \/ /\ rp_result.match # None
              /\ AtLeast(rp_result.score, 6, 10)
        /\ ~AtLeast(rp_best_score, 6, 10) =>
              /\ rp_result.match = None
              /\ rp_result.score.num = 0
              /\ ~rp_result.addr_match
              /\ ~rp_result.city_match

C6_Witness ==
    /\ Selected
    /\ rp_best # None
    /\ ~AtLeast(rp_best_score, 6, 10)
    /\ rp_best_addr_match
    /\ rp_best_city_match
    /\ rp_result.match = None
    /\ ~rp_result.addr_match

\* the indices of the locations whose city set holds the normalized local city
C7_Hits ==
    {i \in 1..Len(rp_locations) :
         normalize_text(rp_local.city) \in rp_locations[i].cities}

C7_Nth(k) == CHOOSE i \in C7_Hits : Cardinality({j \in C7_Hits : j <= i}) = k

\* C7: the candidate list is never empty when the list of locations is not;
\* it is the locations whose city set holds the normalized local city, in
\* their order, when there is such a location and the normalized city is not
\* empty, and the full list in its order otherwise.
C7_CandidatesNeverEmpty ==
    rp_pc # "filter" =>
        /\ rp_locations # <<>> => rp_candidates # <<>>
        /\ IF normalize_text(rp_local.city) # <<>> /\ C7_Hits # {}
           THEN /\ Len(rp_candidates) = Cardinality(C7_Hits)
                /\ \A k \in 1..Len(rp_candidates) :
                       rp_candidates[k] = rp_locations[C7_Nth(k)]
           ELSE rp_candidates = rp_locations

C7_Witness ==
    /\ rp_pc = "scan"
    /\ Len(rp_locations) = 2
    /\ normalize_text(rp_local.city) # <<>>
    /\ C7_Hits = {}
    /\ rp_candidates = rp_locations

\* the candidate scored by the last iteration of the loop
C9_Scanned == rp_pc = "scan" /\ rp_i > 1

C9_Loc == rp_candidates[rp_i - 1]

C9_Line(k) == normalize_address(C9_Loc.addresses[k].address_line1)

C9_Exact(k) ==
    C9_Line(k) # <<>> /\ C9_Line(k) = normalize_address(rp_local.address1)

C9_InOrig(k) ==
    C9_Line(k) # <<>>
    /\ Contains(normalize_address(rp_local.orig_address), C9_Line(k))

C9_Hits == {k \in 1..Len(C9_Loc.addresses) : C9_Exact(k) \/ C9_InOrig(k)}

C9_First == CHOOSE k \in C9_Hits : \A m \in C9_Hits : k <= m

\* the bonus the rule gives: decided by the first address that satisfies
\* either condition
C9_Bonus ==
    IF C9_Hits = {} THEN Rat(0, 1)
    ELSE IF C9_Exact(C9_First) THEN Rat(2, 10)
    ELSE Rat(15, 100)

C9_WithCity(bonus) ==
    RatAdd(RatAdd(rp_cur.base, IF rp_cur.city_match THEN Rat(1, 10) ELSE Rat(0, 1)),
           bonus)

\* C9 as stated: for every local court, also one whose own line1 is empty and
\* whose original display string is not, the first address of the candidate
\* that satisfies either condition decides the bonus (0.2 exact, 0.15 inside
\* the display string), one bonus at most is added, and addressMatched is
\* true exactly when a bonus was added.
C9_AddressBonusForEveryLocal ==
    C9_Scanned =>
        /\ rp_cur.addr_match = (C9_Hits # {})
        /\ RatEq(rp_cur.score, C9_WithCity(C9_Bonus))

\* C9 amended: the rule applies when the local court's normalized line1 is
\* not empty; when it is empty no address of the candidate is looked at, no
\* bonus is added and addressMatched is false, whatever the display string.
C9_AddressBonusWhenLocalLine ==
    C9_Scanned =>
        IF normalize_address(rp_local.address1) # <<>>
        THEN /\ rp_cur.addr_match = (C9_Hits # {})
             /\ RatEq(rp_cur.score, C9_WithCity(C9_Bonus))
        ELSE /\ ~rp_cur.addr_match
             /\ RatEq(rp_cur.score, C9_WithCity(Rat(0, 1)))

C9_Witness ==
    /\ C9_Scanned
    /\ normalize_address(rp_local.address1) # <<>>
    /\ Len(C9_Loc.addresses) = 2
    /\ C9_InOrig(1) /\ ~C9_Exact(1)
    /\ C9_Exact(2)
    /\ rp_cur.addr_match
    /\ RatEq(rp_cur.addr_bonus, Rat(15, 100))

(***************************************************************************)
(* Claims about recommend_action                                           *)
(***************************************************************************)
C8_HasAddress == ra_match # None /\ ra_match[1].addresses # <<>>

C8_Adopt == AtLeast(ra_score, 8, 10) /\ ra_city_match /\ C8_HasAddress

C8_Is(action, preferred) ==
    ra_out.action = action /\ ra_out.preferred = preferred

\* C8: the recommendation follows the table in this order: no match gives
\* (review, needs_manual); else addressMatched gives (no_change, local)
\* whatever the score and cityMatched; else score >= 0.8 with cityMatched and
\* a candidate that has an address gives (update_local_from_massgov,
\* massgov); else (verify_web, needs_manual).  One of the four is produced,
\* and update_local_from_massgov never with addressMatched or without an
\* address.
C8_DecisionTable ==
    ra_pc = "done" =>
        /\ ra_match = None => C8_Is("review", "needs_manual")
        /\ (ra_match # None /\ ra_addr_match) => C8_Is("no_change", "local")
        /\ (ra_match # None /\ ~ra_addr_match /\ C8_Adopt) =>
               C8_Is("update_local_from_massgov", "massgov")
        /\ (ra_match # None /\ ~ra_addr_match /\ ~C8_Adopt) =>
               C8_Is("verify_web", "needs_manual")
        /\ ra_out.action \in
               {"review", "no_change", "update_local_from_massgov", "verify_web"}
        /\ ra_out.action = "update_local_from_massgov" =>
               (~ra_addr_match /\ C8_HasAddress)

C8_Witness ==
    /\ ra_pc = "done"
    /\ ra_addr_match
    /\ C8_Adopt
    /\ ra_out.action = "no_change"

=============================================================================
